---- MODULE Spec2Model ----
(***************************************************************************)
(* Model of logs/sender/stream_strategy.go: streamStrategy.Send, the       *)
(* one-message-at-a-time forwarding loop, and streamStrategy.Flush,        *)
(* together with the environment Send runs in: the upstream producer that  *)
(* fills and closes inputChan, the downstream stage that receives from     *)
(* outputChan, the injected send function (the sink) and the LatencyStats  *)
(* of the messages' origins.                                               *)
(***************************************************************************)
EXTENDS Integers, Sequences, FiniteSets, TLC

\* ---------------------------------------------------------------- bounds
\* Longest input stream the producer feeds before it closes inputChan.
MaxMsgs == 3
\* Capacity of the buffered inputChan. The channels are modelled as buffered
\* channels of at least one slot; a send blocks when the buffer is full.
InCap == 2
\* Capacity of the buffered outputChan.
OutCap == 1
\* Number of distinct log sources a message's Origin can point to.
NumSources == 1

\* ---------------------------------------------------------------- values
\* message.Origin == nil
NoOrigin == 0

Origins == 0..NumSources

\* The value of the loop variable when Send holds no message.
NoMsg == [id |-> 0, origin |-> NoOrigin]

\* *message.Message: Content (identified by id) and Origin.
Messages == [id : 1..MaxMsgs, origin : Origins]

\* The error values the injected send function returns: nil, an error for
\* which shouldStopSending is false, an error for which it is true.
Errors == {"nil", "transient", "fatal"}

\* The input streams: message i of a stream has content i.
Streams ==
    UNION { { s \in [1..n -> Messages] : \A i \in 1..n : s[i].id = i } : n \in 0..MaxMsgs }

\* ---------------------------------------------------------------- parser values
\* Most metrics one family holds.
MaxMetrics == 1
\* Most quantiles of a summary metric.
MaxQuantiles == 1
\* Most buckets of a histogram metric.
MaxBuckets == 1

\* Strings are sequences of characters.
NamePrefixes == {<<>>, <<"p">>, <<"p", "x">>}

MetricNames == {<<"p">>, <<"x">>, <<"p", "x">>, <<"x", "p">>, <<"p", "x", "p">>}

LabelKeys == {"k1", "k2"}

\* A filter.Filter is modelled by the set of strings it matches; the nil
\* interface value is marked.
NilFilter == [isNil |-> TRUE, matches |-> {}]

Filter(matches) == [isNil |-> FALSE, matches |-> matches]

\* Filter.Match
Match(f, s) == s \in f.matches

\* strings.HasPrefix
HasPrefix(s, prefix) ==
    /\ Len(prefix) <= Len(s)
    /\ SubSeq(s, 1, Len(prefix)) = prefix

\* The metric-name filters: nil, or one matching the names that start with a
\* given character.
MetricFilters ==
    {NilFilter} \cup { Filter({n \in MetricNames : HasPrefix(n, <<c>>)}) : c \in {"p", "x"} }

\* The label-key filters: nil, or one matching some label keys.
LabelFilters == {NilFilter} \cup { Filter(ks) : ks \in (SUBSET LabelKeys) \ {{}} }

\* map[string]string values: functions from a set of keys; the nil or empty
\* map is the function of empty domain.
EmptyMap == <<>>

TagMaps == UNION { [ks -> {"d"}] : ks \in SUBSET LabelKeys }

\* NewParser(namePrefix, defaultTags, header, ignoreMetricsFilter, ignoreLabelKeysFilter)
Parsers ==
    [NamePrefix : NamePrefixes, DefaultTags : TagMaps,
     IgnoreMetricsFilter : MetricFilters, IgnoreLabelKeysFilter : LabelFilters]

\* EmptyParser(): &Parser{}
EmptyParser ==
    [NamePrefix |-> <<>>, DefaultTags |-> EmptyMap,
     IgnoreMetricsFilter |-> NilFilter, IgnoreLabelKeysFilter |-> NilFilter]

\* m.Label: label pairs with distinct names, as the exposition format has them.
LabelLists ==
    { l \in UNION { [1..n -> [name : LabelKeys, value : {"v"}]] : n \in 0..Cardinality(LabelKeys) } :
        \A i, j \in DOMAIN l : l[i].name = l[j].name => i = j }

\* dto.Metric of a gauge, counter or untyped family: its value is a number or NaN.
ValueMetrics(kind) == [Label : LabelLists, kind : {kind}, nan : BOOLEAN, n : {0}]

\* dto.Metric of a summary (n quantiles) or histogram (n buckets) family.
SeriesMetrics(kind, max) == [Label : LabelLists, kind : {kind}, nan : {FALSE}, n : 0..max]

MetricLists(ms) == UNION { [1..n -> ms] : n \in 0..MaxMetrics }

\* dto.MetricFamily: name, type and metrics.
FamiliesOf(type, ms) == [name : MetricNames, type : {type}, Metric : MetricLists(ms)]

Families ==
    FamiliesOf("GAUGE", ValueMetrics("gauge"))
        \cup FamiliesOf("COUNTER", ValueMetrics("counter"))
        \cup FamiliesOf("UNTYPED", ValueMetrics("untyped"))
        \cup FamiliesOf("SUMMARY", SeriesMetrics("summary", MaxQuantiles))
        \cup FamiliesOf("HISTOGRAM", SeriesMetrics("histogram", MaxBuckets))

\* No family handled yet.
NoFamily == [name |-> <<>>, type |-> "none", Metric |-> <<>>]

VARIABLES
    stream,       \* the messages the producer feeds, in order
    produced,     \* how many of them it has put on inputChan
    inputChan,    \* contents of inputChan
    inputClosed,  \* the producer has closed inputChan
    outputChan,   \* contents of outputChan
    outputClosed, \* outputChan has been closed
    consumed,     \* what the downstream stage has received from outputChan
    pc,           \* Send's position: "recv", "latency", "send", "check", "output", "done"
    message,      \* Send's loop variable
    err,          \* Send's err
    sinkCalls,    \* the calls of send, in order: content and returned error
    latencyAdds,  \* the calls of LatencyStats.Add, in order: origin and message
    logged,       \* the contents whose failure log.Printf reported, in order
    flushPc,      \* a caller's position in Flush: "idle", "body", "returned"
    ctxDone,      \* whether the context handed to Flush is cancelled
    parser,       \* the *Parser: NamePrefix, DefaultTags and the two filters
    cur,          \* the metric family Parse's loop is at
    parsed,       \* whether the loop body has run for it
    emitted       \* the samples that iteration pushed on slist, in push order

sendVars ==
    <<inputChan, inputClosed, outputChan, outputClosed, pc, message, err,
      sinkCalls, latencyAdds, logged>>

envVars == <<stream, produced, consumed>>

parserVars == <<parser, cur, parsed, emitted>>

vars ==
    <<stream, produced, inputChan, inputClosed, outputChan, outputClosed, consumed,
      pc, message, err, sinkCalls, latencyAdds, logged, flushPc, ctxDone,
      parser, cur, parsed, emitted>>

\* ---------------------------------------------------------------- initial state
Init ==
    /\ stream \in Streams
    /\ produced = 0
    /\ inputChan = <<>>
    /\ inputClosed = FALSE
    /\ outputChan = <<>>
    /\ outputClosed = FALSE
    /\ consumed = <<>>
    /\ pc = "recv"
    /\ message = NoMsg
    /\ err = "nil"
    /\ sinkCalls = <<>>
    /\ latencyAdds = <<>>
    /\ logged = <<>>
    /\ flushPc = "idle"
    /\ ctxDone = FALSE
    /\ parser = EmptyParser
    /\ cur = NoFamily
    /\ parsed = FALSE
    /\ emitted = <<>>

\* ---------------------------------------------------------------- environment
\* The upstream stage puts the next message on inputChan (blocks when full).
Produce ==
    /\ ~inputClosed
    /\ produced < Len(stream)
    /\ Len(inputChan) < InCap
    /\ inputChan' = Append(inputChan, stream[produced + 1])
    /\ produced' = produced + 1
    /\ UNCHANGED <<stream, inputClosed, outputChan, outputClosed, consumed, pc, message,
                   err, sinkCalls, latencyAdds, logged, flushPc, ctxDone>>
    /\ UNCHANGED parserVars

\* The upstream stage closes inputChan once it has fed its whole stream.
CloseInput ==
    /\ ~inputClosed
    /\ produced = Len(stream)
    /\ inputClosed' = TRUE
    /\ UNCHANGED <<stream, produced, inputChan, outputChan, outputClosed, consumed, pc,
                   message, err, sinkCalls, latencyAdds, logged, flushPc, ctxDone>>
    /\ UNCHANGED parserVars

\* The downstream stage receives one message from outputChan.
Consume ==
    /\ outputChan /= <<>>
    /\ consumed' = Append(consumed, Head(outputChan))
    /\ outputChan' = Tail(outputChan)
    /\ UNCHANGED <<stream, produced, inputChan, inputClosed, outputClosed, pc, message,
                   err, sinkCalls, latencyAdds, logged, flushPc, ctxDone>>
    /\ UNCHANGED parserVars

\* ---------------------------------------------------------------- Send
\* shouldStopSending(err): whether the error ends the forwarding loop.
shouldStopSending(e) == e = "fatal"

\* Mutant of Return: Send closes outputChan as it returns (a defer close).
ReturnClosing ==
    /\ pc' = "done"
    /\ message' = NoMsg
    /\ outputClosed' = TRUE

\* return: Send ends; it has no defer and closes nothing.
Return ==
    /\ pc' = "done"
    /\ message' = NoMsg
    /\ UNCHANGED outputClosed

\* Mutant of SendRecv: when inputChan is closed and drained the loop makes one
\* last call of the sink, with an empty payload, before it returns.
SendRecvFinalSend ==
    /\ pc = "recv"
    /\ \/ /\ inputChan /= <<>>
          /\ message' = Head(inputChan)
          /\ inputChan' = Tail(inputChan)
          /\ pc' = "latency"
          /\ UNCHANGED <<outputClosed, sinkCalls>>
       \/ /\ inputChan = <<>>
          /\ inputClosed
          /\ sinkCalls' = Append(sinkCalls, [content |-> 0, err |-> "nil"])
          /\ pc' = "done"
          /\ UNCHANGED <<message, outputClosed, inputChan>>
    /\ UNCHANGED <<stream, produced, inputClosed, outputChan, consumed, err,
                   latencyAdds, logged, flushPc, ctxDone>>
    /\ UNCHANGED parserVars

\* Mutant of SendRecv: Send also gives up when the context last handed to Flush
\* is cancelled.
SendRecvStopsOnCancel ==
    /\ pc = "recv"
    /\ \/ /\ inputChan /= <<>>
          /\ ~ctxDone
          /\ message' = Head(inputChan)
          /\ inputChan' = Tail(inputChan)
          /\ pc' = "latency"
          /\ UNCHANGED outputClosed
       \/ /\ \/ inputChan = <<>> /\ inputClosed
             \/ ctxDone
          /\ Return
          /\ UNCHANGED inputChan
    /\ UNCHANGED <<stream, produced, inputClosed, outputChan, consumed, err, sinkCalls,
                   latencyAdds, logged, flushPc, ctxDone>>
    /\ UNCHANGED parserVars

\* Mutant of SendRecv: the receive does not notice that inputChan was closed
\* and keeps waiting for a message.
SendRecvIgnoresClose ==
    /\ pc = "recv"
    /\ inputChan /= <<>>
    /\ message' = Head(inputChan)
    /\ inputChan' = Tail(inputChan)
    /\ pc' = "latency"
    /\ UNCHANGED <<stream, produced, inputClosed, outputChan, outputClosed, consumed, err,
                   sinkCalls, latencyAdds, logged, flushPc, ctxDone>>
    /\ UNCHANGED parserVars

\* for message := range inputChan: receive the next message, block while the
\* channel is empty and open, leave the loop when it is empty and closed.
SendRecv ==
    /\ pc = "recv"
    /\ \/ /\ inputChan /= <<>>
          /\ message' = Head(inputChan)
          /\ inputChan' = Tail(inputChan)
          /\ pc' = "latency"
          /\ UNCHANGED outputClosed
       \/ /\ inputChan = <<>>
          /\ inputClosed
          /\ Return
          /\ UNCHANGED inputChan
    /\ UNCHANGED <<stream, produced, inputClosed, outputChan, consumed, err, sinkCalls,
                   latencyAdds, logged, flushPc, ctxDone>>
    /\ UNCHANGED parserVars

\* Mutant of SendLatency: the latency is reported without the Origin != nil test,
\* so a message without an origin reports one too.
SendLatencyNoNilCheck ==
    /\ pc = "latency"
    /\ latencyAdds' = Append(latencyAdds, [origin |-> message.origin, id |-> message.id])
    /\ pc' = "send"
    /\ UNCHANGED <<stream, produced, inputChan, inputClosed, outputChan, outputClosed,
                   consumed, message, err, sinkCalls, logged, flushPc, ctxDone>>
    /\ UNCHANGED parserVars

\* Mutant of SendLatency: the latency is not reported before the sink call.
SendLatencyOmitted ==
    /\ pc = "latency"
    /\ pc' = "send"
    /\ UNCHANGED <<stream, produced, inputChan, inputClosed, outputChan, outputClosed,
                   consumed, message, err, sinkCalls, latencyAdds, logged, flushPc, ctxDone>>
    /\ UNCHANGED parserVars

\* if message.Origin != nil { ...LatencyStats.Add(message.GetLatency()) }
SendLatency ==
    /\ pc = "latency"
    /\ latencyAdds' = IF message.origin /= NoOrigin
                        THEN Append(latencyAdds, [origin |-> message.origin, id |-> message.id])
                        ELSE latencyAdds
    /\ pc' = "send"
    /\ UNCHANGED <<stream, produced, inputChan, inputClosed, outputChan, outputClosed,
                   consumed, message, err, sinkCalls, logged, flushPc, ctxDone>>
    /\ UNCHANGED parserVars

\* err := send(message.Content): the sink returns any of its outcomes.
SendSink ==
    /\ pc = "send"
    /\ \E e \in Errors :
          /\ err' = e
          /\ sinkCalls' = Append(sinkCalls, [content |-> message.id, err |-> e])
    /\ pc' = "check"
    /\ UNCHANGED <<stream, produced, inputChan, inputClosed, outputChan, outputClosed,
                   consumed, message, latencyAdds, logged, flushPc, ctxDone>>
    /\ UNCHANGED parserVars

\* Mutant of SendCheckErr: a transient error is logged and the loop continues
\* with the next message, the failed one is not forwarded.
SendCheckErrDrop ==
    /\ pc = "check"
    /\ IF err /= "nil"
         THEN IF shouldStopSending(err)
                THEN /\ Return
                     /\ UNCHANGED logged
                ELSE /\ logged' = Append(logged, message.id)
                     /\ pc' = "recv"
                     /\ message' = NoMsg
                     /\ UNCHANGED outputClosed
         ELSE /\ pc' = "output"
              /\ UNCHANGED <<message, outputClosed, logged>>
    /\ UNCHANGED <<stream, produced, inputChan, inputClosed, outputChan, consumed, err,
                   sinkCalls, latencyAdds, flushPc, ctxDone>>
    /\ UNCHANGED parserVars

\* Mutant of SendCheckErr: the shouldStopSending test is missing, every error
\* is logged and the loop goes on.
SendCheckErrNeverStops ==
    /\ pc = "check"
    /\ IF err /= "nil"
         THEN /\ logged' = Append(logged, message.id)
              /\ pc' = "output"
              /\ UNCHANGED <<message, outputClosed>>
         ELSE /\ pc' = "output"
              /\ UNCHANGED <<message, outputClosed, logged>>
    /\ UNCHANGED <<stream, produced, inputChan, inputClosed, outputChan, consumed, err,
                   sinkCalls, latencyAdds, flushPc, ctxDone>>
    /\ UNCHANGED parserVars

\* Mutant of SendCheckErr: Send returns on every error, transient ones included.
SendCheckErrStopsOnAny ==
    /\ pc = "check"
    /\ IF err /= "nil"
         THEN /\ Return
              /\ UNCHANGED logged
         ELSE /\ pc' = "output"
              /\ UNCHANGED <<message, outputClosed, logged>>
    /\ UNCHANGED <<stream, produced, inputChan, inputClosed, outputChan, consumed, err,
                   sinkCalls, latencyAdds, flushPc, ctxDone>>
    /\ UNCHANGED parserVars

\* Mutant of SendCheckErr: on a fatal error Send empties inputChan before it
\* returns.
SendCheckErrDrains ==
    /\ pc = "check"
    /\ IF err /= "nil"
         THEN IF shouldStopSending(err)
                THEN /\ Return
                     /\ inputChan' = <<>>
                     /\ UNCHANGED logged
                ELSE /\ logged' = Append(logged, message.id)
                     /\ pc' = "output"
                     /\ UNCHANGED <<message, outputClosed, inputChan>>
         ELSE /\ pc' = "output"
              /\ UNCHANGED <<message, outputClosed, logged, inputChan>>
    /\ UNCHANGED <<stream, produced, inputClosed, outputChan, consumed, err,
                   sinkCalls, latencyAdds, flushPc, ctxDone>>
    /\ UNCHANGED parserVars

\* Mutant of SendCheckErr: after a transient error the message is passed to
\* the sink again.
SendCheckErrRetry ==
    /\ pc = "check"
    /\ IF err /= "nil"
         THEN IF shouldStopSending(err)
                THEN /\ Return
                     /\ UNCHANGED logged
                ELSE /\ logged' = Append(logged, message.id)
                     /\ pc' = "send"
                     /\ UNCHANGED <<message, outputClosed>>
         ELSE /\ pc' = "output"
              /\ UNCHANGED <<message, outputClosed, logged>>
    /\ UNCHANGED <<stream, produced, inputChan, inputClosed, outputChan, consumed, err,
                   sinkCalls, latencyAdds, flushPc, ctxDone>>
    /\ UNCHANGED parserVars

\* if err != nil { if shouldStopSending(err) { return }; log.Printf(...) }
SendCheckErr ==
    /\ pc = "check"
    /\ IF err /= "nil"
         THEN IF shouldStopSending(err)
                THEN /\ Return
                     /\ UNCHANGED logged
                ELSE /\ logged' = Append(logged, message.id)
                     /\ pc' = "output"
                     /\ UNCHANGED <<message, outputClosed>>
         ELSE /\ pc' = "output"
              /\ UNCHANGED <<message, outputClosed, logged>>
    /\ UNCHANGED <<stream, produced, inputChan, inputClosed, outputChan, consumed, err,
                   sinkCalls, latencyAdds, flushPc, ctxDone>>
    /\ UNCHANGED parserVars

\* Mutant of SendOutput: a non-blocking write (select with a default case), the
\* message is discarded when outputChan is full.
SendOutputNonBlocking ==
    /\ pc = "output"
    /\ ~outputClosed
    /\ outputChan' = IF Len(outputChan) < OutCap THEN Append(outputChan, message)
                                                  ELSE outputChan
    /\ message' = NoMsg
    /\ pc' = "recv"
    /\ UNCHANGED <<stream, produced, inputChan, inputClosed, outputClosed, consumed, err,
                   sinkCalls, latencyAdds, logged, flushPc, ctxDone>>
    /\ UNCHANGED parserVars

\* Mutant of SendOutput: the write gives up when outputChan is full and Send
\* returns with the message unwritten.
SendOutputOrStop ==
    /\ pc = "output"
    /\ ~outputClosed
    /\ IF Len(outputChan) < OutCap
         THEN /\ outputChan' = Append(outputChan, message)
              /\ message' = NoMsg
              /\ pc' = "recv"
         ELSE /\ pc' = "done"
              /\ message' = NoMsg
              /\ UNCHANGED outputChan
    /\ UNCHANGED <<stream, produced, inputChan, inputClosed, outputClosed, consumed, err,
                   sinkCalls, latencyAdds, logged, flushPc, ctxDone>>
    /\ UNCHANGED parserVars

\* Mutant of SendOutput: when outputChan is full and inputChan has been closed
\* Send discards the message and returns.
SendOutputStopsOnClose ==
    /\ pc = "output"
    /\ ~outputClosed
    /\ IF Len(outputChan) < OutCap
         THEN /\ outputChan' = Append(outputChan, message)
              /\ message' = NoMsg
              /\ pc' = "recv"
         ELSE /\ inputClosed
              /\ pc' = "done"
              /\ message' = NoMsg
              /\ UNCHANGED outputChan
    /\ UNCHANGED <<stream, produced, inputChan, inputClosed, outputClosed, consumed, err,
                   sinkCalls, latencyAdds, logged, flushPc, ctxDone>>
    /\ UNCHANGED parserVars

\* outputChan <- message: blocks while the channel is full.
SendOutput ==
    /\ pc = "output"
    /\ ~outputClosed
    /\ Len(outputChan) < OutCap
    /\ outputChan' = Append(outputChan, message)
    /\ message' = NoMsg
    /\ pc' = "recv"
    /\ UNCHANGED <<stream, produced, inputChan, inputClosed, outputClosed, consumed, err,
                   sinkCalls, latencyAdds, logged, flushPc, ctxDone>>
    /\ UNCHANGED parserVars

\* ---------------------------------------------------------------- Flush
\* Another execution context calls Flush(ctx), with ctx cancelled or not.
FlushCall ==
    /\ flushPc /= "body"
    /\ flushPc' = "body"
    /\ ctxDone' \in BOOLEAN
    /\ UNCHANGED <<stream, produced, inputChan, inputClosed, outputChan, outputClosed,
                   consumed, pc, message, err, sinkCalls, latencyAdds, logged>>
    /\ UNCHANGED parserVars

\* Mutant of Flush: Flush pushes the message Send holds to the sink, unless its
\* context is cancelled.
FlushSendsPending ==
    /\ flushPc = "body"
    /\ flushPc' = "returned"
    /\ sinkCalls' = IF message /= NoMsg /\ ~ctxDone
                      THEN Append(sinkCalls, [content |-> message.id, err |-> "nil"])
                      ELSE sinkCalls
    /\ UNCHANGED <<stream, produced, inputChan, inputClosed, outputChan, outputClosed,
                   consumed, pc, message, err, latencyAdds, logged, ctxDone>>
    /\ UNCHANGED parserVars

\* func (s *streamStrategy) Flush(ctx context.Context) { /* nothing to do */ }
Flush ==
    /\ flushPc = "body"
    /\ flushPc' = "returned"
    /\ UNCHANGED <<stream, produced, inputChan, inputClosed, outputChan, outputClosed,
                   consumed, pc, message, err, sinkCalls, latencyAdds, logged, ctxDone>>
    /\ UNCHANGED parserVars

\* ---------------------------------------------------------------- specification
Next ==
    \/ Produce
    \/ CloseInput
    \/ Consume
    \/ SendRecv
    \/ SendLatency
    \/ SendSink
    \/ SendCheckErr
    \/ SendOutput
    \/ FlushCall
    \/ Flush

Spec == Init /\ [][Next]_vars

\* The scheduling Send's termination rests on: the goroutine running Send
\* keeps running, every sink call returns, the upstream stage feeds its
\* messages and then closes inputChan, and the downstream stage keeps
\* receiving from outputChan.
Fairness ==
    /\ WF_vars(SendRecv)
    /\ WF_vars(SendLatency)
    /\ WF_vars(SendSink)
    /\ WF_vars(SendCheckErr)
    /\ WF_vars(SendOutput)
    /\ WF_vars(Produce)
    /\ WF_vars(CloseInput)
    /\ WF_vars(Consume)

FairSpec == Spec /\ Fairness

\* ---------------------------------------------------------------- Parser
\* result[key] = value on a map[string]string
Put(map, key, value) ==
    [k \in (DOMAIN map) \cup {key} |-> IF k = key THEN value ELSE map[k]]

\* for _, lp := range m.Label { if filter matches { continue }; result[name] = value }
RECURSIVE PutLabels(_, _, _)
PutLabels(result, labels, ignore) ==
    IF labels = <<>> THEN result
    ELSE LET lp == Head(labels) IN
         IF ~ignore.isNil /\ Match(ignore, lp.name)
           THEN PutLabels(result, Tail(labels), ignore)
           ELSE PutLabels(Put(result, lp.name, lp.value), Tail(labels), ignore)

\* for key, value := range p.DefaultTags { result[key] = value }
PutAll(result, tags) ==
    [k \in (DOMAIN result) \cup (DOMAIN tags) |->
        IF k \in DOMAIN tags THEN tags[k] ELSE result[k]]

\* Mutant of makeLabels: the default tags are put first and the metric's own
\* labels overwrite them.
makeLabelsMetricWins(p, m) ==
    PutLabels(PutAll(EmptyMap, p.DefaultTags), m.Label, p.IgnoreLabelKeysFilter)

\* Parser.makeLabels
makeLabels(p, m) ==
    PutAll(PutLabels(EmptyMap, m.Label, p.IgnoreLabelKeysFilter), p.DefaultTags)

\* types.NewSample("", prom.BuildMetric(prefix, name, suffix), value, tags, extra):
\* a sample is kept as the arguments it was built from; i is the index in
\* mf.Metric of the metric it was built for.
NewSample(i, prefix, name, suffix, value, tags, extra) ==
    [metric |-> i, prefix |-> prefix, name |-> name, suffix |-> suffix,
     value |-> value, tags |-> tags, extra |-> extra]

\* namePrefix := ""; if !strings.HasPrefix(metricName, p.NamePrefix) { namePrefix = p.NamePrefix }
PrefixFor(p, metricName) ==
    IF ~HasPrefix(metricName, p.NamePrefix) THEN p.NamePrefix ELSE <<>>

\* Parser.HandleSummary: count, sum and one sample per quantile.
HandleSummary(p, i, m, tags, metricName) ==
    LET namePrefix == PrefixFor(p, metricName) IN
    <<NewSample(i, namePrefix, metricName, "count", <<"SampleCount">>, tags, EmptyMap),
      NewSample(i, namePrefix, metricName, "sum", <<"SampleSum">>, tags, EmptyMap)>>
    \o [q \in 1..m.n |->
          NewSample(i, namePrefix, metricName, "quantile", <<"Value", q>>, tags,
                    [k \in {"quantile"} |-> <<"Quantile", q>>])]

\* Mutant of HandleHistogram: the HasPrefix test is missing, NamePrefix is
\* always passed.
HandleHistogramAlwaysPrefix(p, i, m, tags, metricName) ==
    LET namePrefix == p.NamePrefix IN
    <<NewSample(i, namePrefix, metricName, "count", <<"SampleCount">>, tags, EmptyMap),
      NewSample(i, namePrefix, metricName, "sum", <<"SampleSum">>, tags, EmptyMap),
      NewSample(i, namePrefix, metricName, "bucket", <<"SampleCount">>, tags,
                [k \in {"le"} |-> <<"+Inf">>])>>
    \o [b \in 1..m.n |->
          NewSample(i, namePrefix, metricName, "bucket", <<"CumulativeCount", b>>, tags,
                    [k \in {"le"} |-> <<"UpperBound", b>>])]

\* Parser.HandleHistogram: count, sum, the +Inf bucket and one sample per bucket.
HandleHistogram(p, i, m, tags, metricName) ==
    LET namePrefix == PrefixFor(p, metricName) IN
    <<NewSample(i, namePrefix, metricName, "count", <<"SampleCount">>, tags, EmptyMap),
      NewSample(i, namePrefix, metricName, "sum", <<"SampleSum">>, tags, EmptyMap),
      NewSample(i, namePrefix, metricName, "bucket", <<"SampleCount">>, tags,
                [k \in {"le"} |-> <<"+Inf">>])>>
    \o [b \in 1..m.n |->
          NewSample(i, namePrefix, metricName, "bucket", <<"CumulativeCount", b>>, tags,
                    [k \in {"le"} |-> <<"UpperBound", b>>])]

\* getNameAndValue: the metric's name and value, nothing when the value is NaN
\* or the metric is no gauge, counter or untyped.
getNameAndValue(m, metricName) ==
    IF m.kind \in {"gauge", "counter", "untyped"} /\ ~m.nan
      THEN <<[metric |-> metricName, value |-> <<"Value">>]>>
      ELSE <<>>

\* Parser.handleGaugeCounter
handleGaugeCounter(p, i, m, tags, metricName) ==
    LET fields == getNameAndValue(m, metricName) IN
    [f \in DOMAIN fields |->
        IF ~HasPrefix(fields[f].metric, p.NamePrefix)
          THEN NewSample(i, p.NamePrefix, fields[f].metric, "", fields[f].value, tags, EmptyMap)
          ELSE NewSample(i, <<>>, fields[f].metric, "", fields[f].value, tags, EmptyMap)]

\* The body of Parse's inner loop for metric i of family mf.
HandleMetric(p, mf, i) ==
    LET m == mf.Metric[i]
        tags == makeLabels(p, m)
    IN  IF mf.type = "SUMMARY" THEN HandleSummary(p, i, m, tags, mf.name)
        ELSE IF mf.type = "HISTOGRAM" THEN HandleHistogram(p, i, m, tags, mf.name)
        ELSE handleGaugeCounter(p, i, m, tags, mf.name)

\* for _, m := range mf.Metric { ... }: the samples pushed, metric by metric.
RECURSIVE HandleMetrics(_, _, _)
HandleMetrics(p, mf, i) ==
    IF i > Len(mf.Metric) THEN <<>>
    ELSE HandleMetric(p, mf, i) \o HandleMetrics(p, mf, i + 1)

\* One iteration of Parse's loop over the metric families: a family whose name
\* the IgnoreMetricsFilter matches is skipped.
ParseIteration(p, mf) ==
    IF ~p.IgnoreMetricsFilter.isNil /\ Match(p.IgnoreMetricsFilter, mf.name)
      THEN <<>>
      ELSE HandleMetrics(p, mf, 1)

\* Parser.Parse at the metric family cur of the parsed buffer: the loop body
\* runs for it and pushes its samples on slist.
Parse ==
    /\ ~parsed
    /\ parsed' = TRUE
    /\ emitted' = ParseIteration(parser, cur)
    /\ UNCHANGED <<stream, produced, inputChan, inputClosed, outputChan, outputClosed,
                   consumed, pc, message, err, sinkCalls, latencyAdds, logged, flushPc,
                   ctxDone, parser, cur>>

\* A parser built by NewParser, and a metric family util.Parse has read from
\* the buffer handed to Parse.
ParserInit ==
    /\ stream = <<>>
    /\ produced = 0
    /\ inputChan = <<>>
    /\ inputClosed = FALSE
    /\ outputChan = <<>>
    /\ outputClosed = FALSE
    /\ consumed = <<>>
    /\ pc = "recv"
    /\ message = NoMsg
    /\ err = "nil"
    /\ sinkCalls = <<>>
    /\ latencyAdds = <<>>
    /\ logged = <<>>
    /\ flushPc = "idle"
    /\ ctxDone = FALSE
    /\ parser \in Parsers
    /\ cur \in Families
    /\ parsed = FALSE
    /\ emitted = <<>>

ParserNext == Parse

ParserSpec == ParserInit /\ [][ParserNext]_vars

\* ---------------------------------------------------------------- observations
\* The messages Send has received from inputChan so far, in order.
received == SubSeq(stream, 1, produced - Len(inputChan))

\* The messages Send has written to outputChan so far, in order.
written == consumed \o outputChan

\* The message Send holds, as a sequence of length 0 or 1.
held == IF message = NoMsg THEN <<>> ELSE <<message>>

InSeq(x, s) == \E j \in DOMAIN s : s[j] = x

\* The messages of s whose id is in keep, in the order of s.
RECURSIVE KeepIds(_, _)
KeepIds(s, keep) ==
    IF s = <<>> THEN <<>>
    ELSE IF Head(s).id \in keep THEN <<Head(s)>> \o KeepIds(Tail(s), keep)
    ELSE KeepIds(Tail(s), keep)

\* The sink has been called with message k and returned e.
Returned(k, e) ==
    \E j \in DOMAIN sinkCalls : sinkCalls[j].content = k /\ sinkCalls[j].err = e

\* The sink has returned a transient error for message k and nil for every
\* other message it has been called with.
OnlyTransient(k) ==
    \E j \in DOMAIN sinkCalls :
        /\ sinkCalls[j].content = k
        /\ sinkCalls[j].err = "transient"
        /\ \A l \in DOMAIN sinkCalls \ {j} : sinkCalls[l].err = "nil"

AllSucceed == \A j \in DOMAIN sinkCalls : sinkCalls[j].err = "nil"

C2_OrderPreservation ==
    AllSucceed =>
        /\ written \o held = received
        /\ pc = "done" => written = stream

C2_Witness ==
    /\ Len(stream) = 3
    /\ Len(sinkCalls) = 3
    /\ AllSucceed
    /\ pc = "done"
    /\ consumed = stream

C3_FatalState ==
    \A k \in 1..MaxMsgs :
        Returned(k, "fatal") =>
            /\ \/ pc = "done"
               \/ pc = "check" /\ message.id = k /\ err = "fatal"
            /\ written = SubSeq(stream, 1, k - 1)
            /\ \A j \in DOMAIN sinkCalls : sinkCalls[j].content <= k
            /\ Len(received) = k

C4_State ==
    /\ \A i \in 1..Len(received) :
          /\ (received[i] /= message \/ pc \in {"check", "output"}) =>
                \E e \in Errors : Returned(received[i].id, e)
          /\ (Returned(received[i].id, "nil") /\ received[i] /= message) =>
                InSeq(received[i], written)
    /\ pc = "done" =>
          \/ inputClosed /\ inputChan = <<>> /\ received = stream
          \/ Len(received) > 0 /\ Returned(Len(received), "fatal")

\* C4: a transient error does not make Send return: its next step goes on to
\* the output write, later messages still reach the sink and, on success,
\* the output, and Send returns only on a closed, drained input or on a
\* fatal error.
C4_ContinueAfterTransient ==
    /\ []C4_State
    /\ [][(pc = "check" /\ err = "transient") => pc' /= "done"]_vars

\* A transient error for msg1, then msg2 delivered and written to output.
C4_Witness ==
    /\ Returned(1, "transient")
    /\ Returned(2, "nil")
    /\ \E i \in DOMAIN written : written[i].id = 2

\* ---------------------------------------------------------------- C5
\* The received messages that are neither on the output nor ended by a fatal
\* error: the messages Send is holding.
InFlight ==
    {i \in 1..Len(received) : ~InSeq(received[i], written) /\ ~Returned(i, "fatal")}

\* At most one message is in flight, and it is the loop variable.
C5_State ==
    /\ Cardinality(InFlight) <= 1
    /\ \A i \in InFlight : message = received[i]

\* C5: Send holds at most one message; while it waits to write one to output
\* it receives nothing from input and calls the sink for nothing, and it lets
\* go of the message only by writing it to output.
C5_Backpressure ==
    /\ []C5_State
    /\ [][pc = "output" =>
            /\ Len(inputChan') >= Len(inputChan)
            /\ sinkCalls' = sinkCalls
            /\ \/ message' = message /\ pc' = "output"
               \/ written' = Append(written, message)]_vars

\* Send is blocked on a full outputChan while input is waiting.
C5_Witness ==
    /\ pc = "output"
    /\ Len(outputChan) = OutCap
    /\ inputChan /= <<>>
    /\ ~ENABLED SendOutput

\* ---------------------------------------------------------------- C6
\* C6: once Send has returned it holds nothing, and every message it removed
\* from input is on the output or had its sink call return an error.
C6_NoSilentLoss ==
    pc = "done" =>
        /\ message = NoMsg
        /\ \A i \in 1..Len(received) :
              \/ InSeq(received[i], written)
              \/ Returned(received[i].id, "transient")
              \/ Returned(received[i].id, "fatal")

\* Send returned on a fatal error after forwarding an earlier message.
C6_Witness ==
    /\ pc = "done"
    /\ Len(received) = 2
    /\ Returned(1, "nil")
    /\ Returned(2, "fatal")
    /\ Len(written) = 1

\* ---------------------------------------------------------------- C7
\* The number of Add calls made for message m.
AddsFor(m) == Cardinality({j \in DOMAIN latencyAdds : latencyAdds[j].id = m.id})

\* C7: every received message that is past the latency step has exactly one
\* Add call, made on its own origin's LatencyStats, if it has an origin and
\* none if it has not; no Add is made for anything else.
C7_LatencyAccounting ==
    /\ \A i \in 1..Len(received) :
          LET m == received[i] IN
          IF m.origin /= NoOrigin /\ ~(m = message /\ pc = "latency")
            THEN /\ AddsFor(m) = 1
                 /\ \A j \in DOMAIN latencyAdds :
                       latencyAdds[j].id = m.id => latencyAdds[j].origin = m.origin
            ELSE AddsFor(m) = 0
    /\ \A j \in DOMAIN latencyAdds : latencyAdds[j].id \in 1..Len(received)

\* A message with an origin and one without have both gone through Send.
C7_Witness ==
    /\ Len(latencyAdds) = 1
    /\ \E i \in DOMAIN written : written[i].origin = NoOrigin
    /\ \E i \in DOMAIN written : written[i].origin /= NoOrigin

\* ---------------------------------------------------------------- C8
\* C8: the step Flush takes changes nothing of Send, the sink, the channels or
\* the statistics, and a called Flush can always return, whether or not its
\* context is cancelled and wherever Send is.
C8_FlushNoOp ==
    /\ [][(flushPc = "body" /\ flushPc' = "returned") =>
            UNCHANGED <<sendVars, envVars>>]_vars
    /\ [](flushPc = "body" => ENABLED Flush)

\* A Flush with a cancelled context has returned while Send is blocked on output.
C8_Witness ==
    /\ flushPc = "returned"
    /\ ctxDone
    /\ pc = "output"
    /\ Len(outputChan) = OutCap

\* ---------------------------------------------------------------- C9
\* C9: when input is closed and nothing was ever put on it, the sink is never
\* invoked, Add is never called and nothing is written to output; and the
\* step Send takes on a closed, empty input is its return, with no sink call,
\* no Add and no output write.
C9_GracefulDrain ==
    /\ [](Len(stream) = 0 =>
            /\ sinkCalls = <<>>
            /\ latencyAdds = <<>>
            /\ written = <<>>
            /\ message = NoMsg)
    /\ [][(pc = "recv" /\ inputChan = <<>> /\ inputClosed /\ pc' /= pc) =>
            /\ pc' = "done"
            /\ UNCHANGED <<sinkCalls, latencyAdds, outputChan>>]_vars

\* Send has returned from an input closed with no message.
C9_Witness ==
    /\ Len(stream) = 0
    /\ inputClosed
    /\ pc = "done"
    /\ sinkCalls = <<>>

\* ---------------------------------------------------------------- C10
\* C10: outputChan is open in every reachable state.
C10_OutputNeverClosed == ~outputClosed

\* Send has returned on a fatal error and outputChan is open.
C10_Witness ==
    /\ pc = "done"
    /\ \E k \in 1..MaxMsgs : Returned(k, "fatal")
    /\ ~outputClosed

\* ---------------------------------------------------------------- C11
\* Once the sink has returned a fatal error for message k, inputChan holds
\* exactly the messages the producer enqueued after k.
C11_State ==
    \A k \in 1..MaxMsgs :
        Returned(k, "fatal") => inputChan = SubSeq(stream, k + 1, produced)

\* C11: after a fatal error for message k Send receives nothing more: no step
\* shortens inputChan, and the messages enqueued after k stay on it.
C11_FatalLeavesInput ==
    /\ []C11_State
    /\ [][(\E k \in 1..MaxMsgs : Returned(k, "fatal")) =>
            \/ inputChan' = inputChan
            \/ \E m \in Messages : inputChan' = Append(inputChan, m)]_vars

\* input = [msg1, msg2], fatal error on msg1: output empty, msg2 on inputChan.
C11_Witness ==
    /\ Len(stream) = 2
    /\ Returned(1, "fatal")
    /\ pc = "done"
    /\ written = <<>>
    /\ inputChan = <<stream[2]>>

\* ---------------------------------------------------------------- C12
\* The received messages that Send has taken to the sink: all of them but the
\* one it holds before the sink call.
Sent ==
    IF message /= NoMsg /\ pc \in {"latency", "send"}
      THEN SubSeq(received, 1, Len(received) - 1)
      ELSE received

\* C12: the sink calls made are, in order, one call per received message, each
\* with that message's content; so no message is passed twice, failed or not.
C12_OneSinkCallPerMessage ==
    /\ Len(sinkCalls) = Len(Sent)
    /\ \A j \in DOMAIN sinkCalls : sinkCalls[j].content = Sent[j].id

\* msg1 failed transiently and was not retried; msg2 and msg3 followed.
C12_Witness ==
    /\ Len(sinkCalls) = 3
    /\ sinkCalls[1] = [content |-> 1, err |-> "transient"]
    /\ sinkCalls[2].content = 2
    /\ sinkCalls[3].content = 3

\* ---------------------------------------------------------------- C13
\* C13: the step by which Send returns is taken either at the receive, with
\* inputChan closed and empty, or at the error check, with a fatal error; and
\* where Send has returned, inputChan was closed with every message of the
\* stream received, or the last received message had a fatal error.
C13_OnlyExits ==
    /\ [][(pc /= "done" /\ pc' = "done") =>
            \/ pc = "recv" /\ inputClosed /\ inputChan = <<>>
            \/ pc = "check" /\ err = "fatal" /\ shouldStopSending(err)]_vars
    /\ [](pc = "done" =>
            \/ inputClosed /\ received = stream /\ ~Returned(Len(received), "fatal")
            \/ Len(received) > 0 /\ sinkCalls[Len(sinkCalls)] =
                                      [content |-> Len(received), err |-> "fatal"])

\* Send returned on the closed input, after a transient error and a Flush
\* with a cancelled context.
C13_Witness ==
    /\ pc = "done"
    /\ Len(stream) = 2
    /\ inputClosed
    /\ received = stream
    /\ Returned(1, "transient")
    /\ Returned(2, "nil")
    /\ flushPc = "returned"
    /\ ctxDone

\* ---------------------------------------------------------------- C14
\* C14: when the producer closes inputChan after its messages, every sink call
\* returns and the downstream stage keeps receiving, Send eventually returns.
C14_Termination == <>(pc = "done")

\* Send has returned after forwarding three messages to a consuming stage.
C14_Witness ==
    /\ pc = "done"
    /\ Len(stream) = 3
    /\ inputClosed
    /\ consumed = stream

\* ---------------------------------------------------------------- C15
\* C15: while outputChan is full and the downstream stage takes nothing from
\* it, a Send that has reached the output write stays there with its message:
\* it cannot write, does not return and does not let go of the message,
\* whatever else happens (the closing of inputChan included).
C15_BlockedOnOutput ==
    /\ [][(pc = "output" /\ Len(outputChan) >= OutCap /\ consumed' = consumed) =>
            /\ pc' = "output"
            /\ message' = message
            /\ outputChan' = outputChan]_vars
    /\ []((pc = "output" /\ Len(outputChan) >= OutCap) =>
            /\ ~ENABLED SendOutput
            /\ message /= NoMsg)

\* Send is blocked on the full outputChan, nothing was ever consumed, and
\* inputChan has been closed.
C15_Witness ==
    /\ pc = "output"
    /\ Len(outputChan) = OutCap
    /\ consumed = <<>>
    /\ inputClosed
    /\ message /= NoMsg

\* ---------------------------------------------------------------- C16
\* C16: every message with an origin that has been passed to the sink has had
\* its latency reported exactly once, whatever the sink returned: the report
\* is there in the state the sink call ends in.
C16_LatencyBeforeSink ==
    \A j \in DOMAIN sinkCalls :
        \A i \in 1..Len(received) :
            (received[i].id = sinkCalls[j].content /\ received[i].origin /= NoOrigin) =>
                AddsFor(received[i]) = 1

\* Two messages with an origin, one failed transiently and one fatally, each
\* with its latency reported.
C16_Witness ==
    /\ Len(received) = 2
    /\ received[1].origin /= NoOrigin
    /\ received[2].origin /= NoOrigin
    /\ Returned(1, "transient")
    /\ Returned(2, "fatal")
    /\ Len(latencyAdds) = 2

\* ---------------------------------------------------------------- C17
\* The label pairs of the metric a sample was built for.
LabelsOf(s) == cur.Metric[s.metric].Label

Ignored(name) ==
    ~parser.IgnoreLabelKeysFilter.isNil /\ Match(parser.IgnoreLabelKeysFilter, name)

\* C17: in the tags of every sample Parse pushes, each key of DefaultTags has
\* the DefaultTags value, also when the metric has a label of that name; a
\* label the IgnoreLabelKeysFilter matches is a key only if DefaultTags has
\* it; every other label of the metric is there with its own value.
C17_LabelPrecedence ==
    \A j \in DOMAIN emitted :
        LET s == emitted[j]
            labels == LabelsOf(s)
        IN  /\ \A k \in DOMAIN parser.DefaultTags :
                  k \in DOMAIN s.tags /\ s.tags[k] = parser.DefaultTags[k]
            /\ \A i \in DOMAIN labels :
                  IF Ignored(labels[i].name)
                    THEN labels[i].name \in DOMAIN s.tags =>
                            labels[i].name \in DOMAIN parser.DefaultTags
                    ELSE labels[i].name \notin DOMAIN parser.DefaultTags =>
                            /\ labels[i].name \in DOMAIN s.tags
                            /\ s.tags[labels[i].name] = labels[i].value

\* A sample of a metric with labels k1 and k2, k1 also a default tag and k2
\* ignored: k1 has the default value and k2 is absent.
C17_Witness ==
    /\ parsed
    /\ emitted /= <<>>
    /\ DOMAIN parser.DefaultTags = {"k1"}
    /\ parser.IgnoreLabelKeysFilter = Filter({"k2"})
    /\ Len(LabelsOf(emitted[1])) = 2
    /\ emitted[1].tags = [k \in {"k1"} |-> "d"]

\* ---------------------------------------------------------------- C18
\* C18: every sample Parse pushes, of whatever family type, is built with the
\* prefix NamePrefix when the metric name does not start with NamePrefix and
\* with the empty prefix when it does, and with the family's name; a family
\* whose name the IgnoreMetricsFilter matches has no sample pushed.
C18_PrefixOnce ==
    /\ \A j \in DOMAIN emitted :
          /\ emitted[j].name = cur.name
          /\ emitted[j].prefix =
                IF HasPrefix(cur.name, parser.NamePrefix) THEN <<>> ELSE parser.NamePrefix
    /\ (~parser.IgnoreMetricsFilter.isNil /\ Match(parser.IgnoreMetricsFilter, cur.name)) =>
          emitted = <<>>

\* A histogram whose name already starts with the non-empty NamePrefix: its
\* samples are built with the empty prefix.
C18_Witness ==
    /\ parsed
    /\ cur.type = "HISTOGRAM"
    /\ parser.NamePrefix = <<"p">>
    /\ cur.name = <<"p", "x">>
    /\ Len(emitted) >= 3
    /\ \A j \in DOMAIN emitted : emitted[j].prefix = <<>>

====
